---- MODULE Spec2Model ----
(***************************************************************************)
(* Model of the research agent: the two-tier retrieval tools (search_web,  *)
(* fetch_webpage_content) of research_agent.py, the provider clients of    *)
(* context7_integration.py, and ResearchAgent.research with its synthesis  *)
(* ladder.                                                                 *)
(*                                                                         *)
(* Python values are modelled as records so that values of different       *)
(* Python types stay comparable: a value returned by a provider is         *)
(* [kind, items] (search) or [kind, n, parts] (fetch).  A dict key         *)
(* that is missing is Absent, a JSON null is Null.                         *)
(***************************************************************************)
EXTENDS Integers, Sequences, FiniteSets, TLC

VARIABLES
    logfire_enabled,  \* ResearchAgent.logfire_enabled
    logfire_init,     \* how the constructor's Logfire setup went
    emitted,          \* a search, fetch or research call has made a logfire call
    api_key,          \* api_key of the call's Context7Search object
    tpc,              \* position of the running tool call
    top,              \* which tool: "none", "search", "fetch"
    targ,             \* the tool's argument: query or url
    tlimit,           \* ctx.deps.max_search_results of the call
    primary_called,   \* context7.search / fetch_content has returned
    primary_net,      \* the primary made a network request
    primary_resp,     \* what the primary's HTTP request got
    primary_ret,      \* value returned by the primary
    fb_called,        \* number of fallback_* invocations in this call
    fb_args,          \* arguments of the fallback invocation
    fb_resp,          \* what the fallback's HTTP request got
    fb_ret,           \* value returned by the fallback
    calls,            \* the providers invoked in this call, in order
    emit_fault,       \* a logfire call raised during this tool call
    tresult,          \* what the tool call gave its caller
    rpc,              \* "new" before construction, then the research call's position
    rquery,           \* research's query argument
    rlimit,           \* research's max_results argument
    response_text,    \* the text taken from agent.run's result
    findings,         \* the ResearchFindings research builds
    rfault,           \* the fault research raised: "", "backend", "tool", "emit"
    r_emit_fault,     \* a logfire call of research itself raised
    cpc,              \* concurrent calls: each call's position
    cin,              \* concurrent calls: the inputs each call was given
    locals,           \* concurrent calls: the local variables of each call's frame
    cres,             \* concurrent calls: what each call gave its caller
    overlapped,       \* concurrent calls: a call stepped while another was suspended
    ipc,              \* interactive_research: position in the loop
    iline,            \* interactive_research: the last line input() returned
    iasked,           \* interactive_research: the prompt that line answered
    research_calls,   \* interactive_research: agent.research calls started
    ioutcome          \* interactive_research: how the last agent.research call ended

tvars == <<api_key, tpc, top, targ, tlimit, primary_called, primary_net,
           primary_resp, primary_ret, fb_called, fb_args, fb_resp, fb_ret, calls,
           emit_fault, tresult>>

rvars == <<rpc, rquery, rlimit, response_text, findings, rfault, r_emit_fault>>

avars == <<logfire_enabled, logfire_init, emitted>>

cvars == <<cpc, cin, locals, cres, overlapped>>

ivars == <<ipc, iline, iasked, research_calls, ioutcome>>

xvars == <<cvars, ivars>>

vars == <<avars, tvars, rvars, xvars>>

-----------------------------------------------------------------------------
(* Bounds *)

MaxItems == 2   \* longest "results" list in a primary payload
MaxDivs == 3    \* most div.result elements on a secondary result page
MaxLimit == 2   \* largest max_search_results

-----------------------------------------------------------------------------
(* Helpers *)

Min(a, b) == IF a < b THEN a ELSE b

\* All sequences over S of length at most n.
BSeq(S, n) == UNION {[1..k -> S] : k \in 0..n}

Absent == "<absent>"
Null == "<null>"

\* dict.get(key, default) on a field that is Absent when the key is missing.
Get(v, default) == IF v = Absent THEN default ELSE v

Queries == {"q1", "q2"}
Limits == 1..MaxLimit

\* no Context7Search object has been constructed in this call
NoClient == "<none>"

\* os.getenv("CONTEXT7_API_KEY"): unset, a placeholder, or a real credential.
ApiKeys == {"", "dummy-key", "sk-live"}

\* a test for the absent credential alone, without the placeholder test
Unconfigured_OnlyAbsent(key) == key = ""

\* `not self.api_key or self.api_key.startswith("dummy")`
Unconfigured(key) == key = "" \/ key \in {"dummy-key"}

-----------------------------------------------------------------------------
(* Python values *)

\* the primary returned before sending: there is no response
NoRequest == [kind |-> "norequest"]

PyList(s) == [kind |-> "list", items |-> s]
\* None, which a payload with "results": null gives
PyNone == [kind |-> "none", items |-> <<>>]
\* a truthy value that is no list (a JSON number, string or object)
PyScalar == [kind |-> "scalar", items |-> <<>>]

\* bool(v)
Truthy(v) == \/ v.kind = "scalar"
             \/ v.kind = "list" /\ Len(v.items) > 0

-----------------------------------------------------------------------------
(* SearchResult and the entries of a provider's result list *)

Entry(k, t, u, s, c, sc) ==
    [kind |-> k, title |-> t, url |-> u, snippet |-> s, content |-> c, score |-> sc]

ItemA == Entry("dict", "tA", "uA", "sA", Absent, "0.9")
ItemB == Entry("dict", "tB", Absent, Absent, "cB", Absent)
ItemNullTitle == Entry("dict", Null, "uN", "sN", Absent, Absent)
ItemStr == Entry("str", Absent, Absent, Absent, Absent, Absent)

\* entries a primary payload's "results" list may hold
PrimaryItems == {ItemA, ItemB, ItemNullTitle, ItemStr}

\* SearchResult(title=..., url=..., snippet=..., relevance_score=...)
SearchResult(t, u, s, r) == [title |-> t, url |-> u, snippet |-> s, relevance_score |-> r]

\* the constructor call of the conversion loop
SearchResultOf(item) ==
    SearchResult(Get(item.title, ""), Get(item.url, ""),
                 Get(item.snippet, Get(item.content, "")),
                 Get(item.score, "None"))

\* item.get exists (a dict) and every str field validates
ItemConverts(item) ==
    /\ item.kind = "dict"
    /\ Get(item.title, "") # Null
    /\ Get(item.url, "") # Null
    /\ Get(item.snippet, Get(item.content, "")) # Null

\* the fault the conversion loop raises on its first bad element, "" if none
ConvertFault(v) ==
    IF v.kind # "list" THEN "TypeError"
    ELSE IF \E i \in 1..Len(v.items) : v.items[i].kind # "dict" THEN "AttributeError"
    ELSE IF \E i \in 1..Len(v.items) : ~ItemConverts(v.items[i]) THEN "ValidationError"
    ELSE ""

ConvertResults(v) == [i \in 1..Len(v.items) |-> SearchResultOf(v.items[i])]

NoResultsSentinel(q) ==
    SearchResult("Search for: " \o q, "", "No search results available at this time", "0.0")

ErrorSentinel(e) ==
    SearchResult("Search error", "", "Search functionality encountered an error: " \o e, "0.0")

\* `return results if results else [sentinel]`
ReturnResults(results, q) ==
    IF Len(results) > 0 THEN results ELSE <<NoResultsSentinel(q)>>

-----------------------------------------------------------------------------
(* Primary provider: Context7Search.search *)

PrimaryFaultKinds == {"neterr", "timeout", "status", "notjson", "notdict"}

\* what POST /v1/search can give: a fault, or a 200 with a JSON payload
PrimarySearchResponses ==
    {[kind |-> k, items |-> <<>>] :
        k \in PrimaryFaultKinds \cup {"nokey", "null", "scalar"}}
    \cup {[kind |-> "results", items |-> s] : s \in BSeq(PrimaryItems, MaxItems)}

Context7Search_search(key, resp) ==
    IF Unconfigured(key) THEN PyList(<<>>)
    ELSE CASE resp.kind \in {"neterr", "timeout"} -> PyList(<<>>)
           [] resp.kind = "status" -> PyList(<<>>)
           [] resp.kind \in {"notjson", "notdict"} -> PyList(<<>>)
           [] resp.kind = "nokey" -> PyList(<<>>)
           [] resp.kind = "null" -> PyNone
           [] resp.kind = "scalar" -> PyScalar
           [] OTHER -> PyList(resp.items)

-----------------------------------------------------------------------------
(* Secondary provider: fallback_search *)

Div(t, u, s) == Entry("div", t, u, s, Absent, Absent)
DivA == Div("dA", "hA", "nA")
DivB == Div("dB", Absent, Absent)
DivNoTitle == Div(Absent, Absent, "nC")
Divs == {DivA, DivB, DivNoTitle}

SecondarySearchResponses ==
    {[kind |-> k, divs |-> <<>>] : k \in {"neterr", "timeout"}}
    \cup {[kind |-> "html", divs |-> s] : s \in BSeq(Divs, MaxDivs)}

\* the dict appended for a div that has a title link
DivDict(d) == Entry("dict", d.title, Get(d.url, ""), Get(d.snippet, ""), Absent, Absent)

HasTitle(d) == d.title # Absent

\* soup.find_all('div', class_='result')[:max_results]
FirstDivs(divs, max_results) == SubSeq(divs, 1, Min(max_results, Len(divs)))

RECURSIVE DivResults(_)
DivResults(divs) ==
    IF divs = <<>> THEN <<>>
    ELSE (IF HasTitle(Head(divs)) THEN <<DivDict(Head(divs))>> ELSE <<>>)
         \o DivResults(Tail(divs))

fallback_search(page, max_results) ==
    IF page.kind # "html" THEN PyList(<<>>)
    ELSE PyList(DivResults(FirstDivs(page.divs, max_results)))

-----------------------------------------------------------------------------
(* What a tool call gives its caller *)

NoResult == [kind |-> "none"]
Raised(e) == [kind |-> "raised", error |-> e]
Returned(v) == [kind |-> "returned", value |-> v]

\* the fallback taken whatever the primary returned
NeedsFallback_Always(v) == TRUE

\* `if not search_results:`
NeedsFallback(v) == ~Truthy(v)

-----------------------------------------------------------------------------
(* search_web *)

\* the backend invokes a tool during agent.run, one tool call at a time
ToolFree == rpc = "r_running" /\ tpc = "idle"

SearchCall(q, lim) ==
    /\ ToolFree
    /\ lim = rlimit
    /\ tpc' = "s_enter"
    /\ api_key' = NoClient
    /\ top' = "search"
    /\ targ' = q
    /\ tlimit' = lim
    /\ primary_called' = FALSE
    /\ primary_net' = FALSE
    /\ primary_resp' = NoRequest
    /\ primary_ret' = PyNone
    /\ fb_called' = 0
    /\ fb_args' = <<>>
    /\ fb_resp' = NoRequest
    /\ calls' = <<>>
    /\ fb_ret' = PyNone
    /\ emit_fault' = FALSE
    /\ tresult' = NoResult
    /\ UNCHANGED <<avars, rvars>>
    /\ UNCHANGED xvars

\* a logfire call: skipped when disabled, else it returns (ok) or raises
EmitOutcomes == IF logfire_enabled THEN BOOLEAN ELSE {TRUE}

\* the `except Exception as e:` handler of search_web
SearchExcept(e, errok) ==
    IF errok
    THEN /\ tpc' = "t_done"
         /\ tresult' = Returned(<<ErrorSentinel(e)>>)
    ELSE /\ tpc' = "t_raised"
         /\ tresult' = Raised("emit")

\* logfire.info("Searching web with Context7") before the try block
SearchEnter ==
    /\ tpc = "s_enter"
    /\ \E ok \in EmitOutcomes :
         /\ emit_fault' = ~ok
         /\ IF ok
            THEN /\ tpc' = "s_primary"
                 /\ UNCHANGED tresult
            ELSE /\ tpc' = "t_raised"
                 /\ tresult' = Raised("emit")
    /\ emitted' = (emitted \/ logfire_enabled)
    /\ UNCHANGED <<logfire_enabled, logfire_init, api_key, rvars, top, targ, tlimit, primary_called,
                   primary_net, primary_resp, primary_ret, fb_called, fb_args, fb_resp,
                   fb_ret, calls>>
    /\ UNCHANGED xvars

\* search_results = await context7.search(query, ctx.deps.max_search_results)
SearchPrimary ==
    /\ tpc = "s_primary"
    /\ \E key \in ApiKeys, resp \in PrimarySearchResponses :
         /\ api_key' = key
         /\ primary_resp' = (IF Unconfigured(key) THEN NoRequest ELSE resp)
         /\ primary_ret' = Context7Search_search(key, resp)
         /\ primary_net' = ~Unconfigured(key)
    /\ primary_called' = TRUE
    /\ calls' = Append(calls, "primary")
    /\ tpc' = "s_check"
    /\ UNCHANGED <<avars, rvars, top, targ, tlimit,
                   fb_called, fb_args, fb_resp, fb_ret, emit_fault, tresult>>
    /\ UNCHANGED xvars

\* a fallback that returns to the emptiness test, retrying while it is empty
AfterSearchFallback_Retry == "s_check"

\* where search_web goes on after `await fallback_search(...)`: the conversion
AfterSearchFallback == "s_convert"

\* the `if not search_results:` branch: emit, then await fallback_search
SearchFallback ==
    /\ tpc = "s_check"
    /\ NeedsFallback(primary_ret)
    /\ \E ok \in EmitOutcomes :
         IF ok
         THEN /\ \E page \in SecondarySearchResponses :
                   /\ fb_resp' = page
                   /\ fb_ret' = fallback_search(page, tlimit)
              /\ calls' = Append(calls, "secondary")
              /\ fb_called' = fb_called + 1
              /\ fb_args' = <<targ, tlimit>>
              /\ tpc' = AfterSearchFallback
              /\ UNCHANGED <<emit_fault, tresult>>
         ELSE /\ emit_fault' = TRUE
              /\ \E errok \in EmitOutcomes : SearchExcept("emit", errok)
              /\ UNCHANGED <<fb_called, fb_args, fb_resp, fb_ret, calls>>
    /\ emitted' = (emitted \/ logfire_enabled)
    /\ UNCHANGED <<logfire_enabled, logfire_init, api_key, rvars, top, targ, tlimit, primary_called,
                   primary_net, primary_resp, primary_ret>>
    /\ UNCHANGED xvars

\* the value bound to search_results when the conversion loop starts
SearchResults == IF fb_called > 0 THEN fb_ret ELSE primary_ret

\* the conversion loop, logfire.info("Search completed") and the return
SearchFinish ==
    /\ \/ tpc = "s_check" /\ ~NeedsFallback(primary_ret)
       \/ tpc = "s_convert"
    /\ IF ConvertFault(SearchResults) # ""
       THEN /\ \E errok \in EmitOutcomes :
                 /\ SearchExcept(ConvertFault(SearchResults), errok)
                 /\ emit_fault' = (emit_fault \/ ~errok)
       ELSE \E ok \in EmitOutcomes :
              IF ok
              THEN /\ tpc' = "t_done"
                   /\ tresult' = Returned(ReturnResults(ConvertResults(SearchResults), targ))
                   /\ UNCHANGED emit_fault
              ELSE /\ emit_fault' = TRUE
                   /\ \E errok \in EmitOutcomes : SearchExcept("emit", errok)
    /\ emitted' = (emitted \/ logfire_enabled)
    /\ UNCHANGED <<logfire_enabled, logfire_init, api_key, rvars, top, targ, tlimit, primary_called,
                   primary_net, primary_resp, primary_ret, fb_called, fb_args, fb_resp,
                   fb_ret, calls>>
    /\ UNCHANGED xvars

-----------------------------------------------------------------------------
(* Python strings of the fetch path                                         *)
(* A string is the first n characters of the page body followed by literal  *)
(* pieces: PyStr(0, <<>>) is "", PyStr(0, <<"Failed to fetch ", url>>) is   *)
(* the f-string, PyStr(5000, <<"...">>) is a truncated page.                *)

PyStr(n, parts) == [kind |-> "str", n |-> n, parts |-> parts]
\* a truthy JSON value that is neither a string nor a container (a number)
PyNumber == [kind |-> "number", n |-> 0, parts |-> <<>>]
PyNoneStr == [kind |-> "none", n |-> 0, parts |-> <<>>]

RECURSIVE PartsLen(_)
PartsLen(parts) == IF parts = <<>> THEN 0 ELSE Len(Head(parts)) + PartsLen(Tail(parts))

\* len(s)
StrLen(s) == s.n + PartsLen(s.parts)

\* bool(content)
TruthyStr(s) == CASE s.kind = "str" -> StrLen(s) > 0
                  [] s.kind = "none" -> FALSE
                  [] OTHER -> TRUE

Urls == {"u1", "u2"}

KeyRequiredText == " (Context7 API key required for real data)"

\* `"Context7 API key required" in content` for a str
HasKeyRequired(s) == \E i \in 1..Len(s.parts) : s.parts[i] = KeyRequiredText

\* f"Error fetching {url}: {e}"
ErrorFetching(url, e) == PyStr(0, <<"Error fetching ", url, ": ", e>>)

\* text[:5000] + "..."
FetchMaxChars == 5000
TruncationMarker == "..."

-----------------------------------------------------------------------------
(* Primary provider: Context7Search.fetch_content *)

\* contents a 200 payload's "content" may hold
PrimaryContents ==
    {PyStr(0, <<>>), PyStr(7, <<>>), PyStr(7, <<KeyRequiredText>>),
     PyNoneStr, PyNumber}

PrimaryFetchResponses ==
    {[kind |-> k, content |-> PyNoneStr] : k \in PrimaryFaultKinds \cup {"nokey"}}
    \cup {[kind |-> "content", content |-> c] : c \in PrimaryContents}

Context7Search_fetch_content(key, url, resp) ==
    IF Unconfigured(key) THEN PyStr(0, <<"Content from ", url, KeyRequiredText>>)
    ELSE CASE resp.kind = "neterr" -> ErrorFetching(url, "ConnectError")
           [] resp.kind = "timeout" -> ErrorFetching(url, "ReadTimeout")
           [] resp.kind = "status" -> PyStr(0, <<"Failed to fetch ", url>>)
           [] resp.kind = "notjson" -> ErrorFetching(url, "JSONDecodeError")
           [] resp.kind = "notdict" -> ErrorFetching(url, "AttributeError")
           [] resp.kind = "nokey" -> PyStr(0, <<>>)
           [] OTHER -> resp.content

-----------------------------------------------------------------------------
(* Secondary provider: fallback_fetch *)

\* lengths of the text extracted from the fetched page
PageLens == {0, 1, FetchMaxChars - 1, FetchMaxChars, FetchMaxChars + 1,
             FetchMaxChars + 1000}

SecondaryFetchResponses ==
    {[kind |-> k, len |-> 0] : k \in {"neterr", "timeout"}}
    \cup {[kind |-> "html", len |-> n] : n \in PageLens}

\* the cut taken at 5000 characters already
LimitLength_AtLeast(n) ==
    IF n >= FetchMaxChars THEN PyStr(FetchMaxChars, <<TruncationMarker>>)
    ELSE PyStr(n, <<>>)

\* `if len(text) > 5000: text = text[:5000] + "..."`
LimitLength(n) ==
    IF n > FetchMaxChars THEN PyStr(FetchMaxChars, <<TruncationMarker>>)
    ELSE PyStr(n, <<>>)

fallback_fetch(url, page) ==
    CASE page.kind = "neterr" -> ErrorFetching(url, "ConnectError")
      [] page.kind = "timeout" -> ErrorFetching(url, "ReadTimeout")
      [] OTHER -> LimitLength(page.len)

-----------------------------------------------------------------------------
(* fetch_webpage_content *)

\* `if not content or "Context7 API key required" in content:`
\* "TypeError" when `in` is applied to a value that is no container
FetchCheck(content) ==
    IF ~TruthyStr(content) THEN "fallback"
    ELSE IF content.kind = "number" THEN "TypeError"
    ELSE IF HasKeyRequired(content) THEN "fallback"
    ELSE "keep"

FetchCall(url) ==
    /\ ToolFree
    /\ tpc' = "f_enter"
    /\ api_key' = NoClient
    /\ top' = "fetch"
    /\ targ' = url
    /\ tlimit' = 1
    /\ primary_called' = FALSE
    /\ primary_net' = FALSE
    /\ primary_resp' = NoRequest
    /\ primary_ret' = PyNoneStr
    /\ fb_called' = 0
    /\ fb_args' = <<>>
    /\ fb_resp' = NoRequest
    /\ calls' = <<>>
    /\ fb_ret' = PyNoneStr
    /\ emit_fault' = FALSE
    /\ tresult' = NoResult
    /\ UNCHANGED <<avars, rvars>>
    /\ UNCHANGED xvars

\* the `except Exception as e:` handler of fetch_webpage_content
FetchExcept(e, errok) ==
    IF errok
    THEN /\ tpc' = "t_done"
         /\ tresult' = Returned(ErrorFetching(targ, e))
    ELSE /\ tpc' = "t_raised"
         /\ tresult' = Raised("emit")

\* logfire.info("Fetching webpage") before the try block
FetchEnter ==
    /\ tpc = "f_enter"
    /\ \E ok \in EmitOutcomes :
         /\ emit_fault' = ~ok
         /\ IF ok
            THEN /\ tpc' = "f_primary"
                 /\ UNCHANGED tresult
            ELSE /\ tpc' = "t_raised"
                 /\ tresult' = Raised("emit")
    /\ emitted' = (emitted \/ logfire_enabled)
    /\ UNCHANGED <<logfire_enabled, logfire_init, api_key, rvars, top, targ, tlimit, primary_called,
                   primary_net, primary_resp, primary_ret, fb_called, fb_args, fb_resp,
                   fb_ret, calls>>
    /\ UNCHANGED xvars

\* content = await context7.fetch_content(url)
FetchPrimary ==
    /\ tpc = "f_primary"
    /\ \E key \in ApiKeys, resp \in PrimaryFetchResponses :
         /\ api_key' = key
         /\ primary_resp' = (IF Unconfigured(key) THEN NoRequest ELSE resp)
         /\ primary_ret' = Context7Search_fetch_content(key, targ, resp)
         /\ primary_net' = ~Unconfigured(key)
    /\ primary_called' = TRUE
    /\ calls' = Append(calls, "primary")
    /\ tpc' = "f_check"
    /\ UNCHANGED <<avars, rvars, top, targ, tlimit,
                   fb_called, fb_args, fb_resp, fb_ret, emit_fault, tresult>>
    /\ UNCHANGED xvars

\* the fallback branch: emit, then await fallback_fetch(url)
FetchFallback ==
    /\ tpc = "f_check"
    /\ FetchCheck(primary_ret) = "fallback"
    /\ \E ok \in EmitOutcomes :
         IF ok
         THEN /\ \E page \in SecondaryFetchResponses :
                   /\ fb_resp' = page
                   /\ fb_ret' = fallback_fetch(targ, page)
              /\ calls' = Append(calls, "secondary")
              /\ fb_called' = fb_called + 1
              /\ fb_args' = <<targ>>
              /\ tpc' = "f_return"
              /\ UNCHANGED <<emit_fault, tresult>>
         ELSE /\ emit_fault' = TRUE
              /\ \E errok \in EmitOutcomes : FetchExcept("emit", errok)
              /\ UNCHANGED <<fb_called, fb_args, fb_resp, fb_ret, calls>>
    /\ emitted' = (emitted \/ logfire_enabled)
    /\ UNCHANGED <<logfire_enabled, logfire_init, api_key, rvars, top, targ, tlimit, primary_called,
                   primary_net, primary_resp, primary_ret>>
    /\ UNCHANGED xvars

\* the value bound to content when the function returns it
FetchContent == IF fb_called > 0 THEN fb_ret ELSE primary_ret

\* the membership test raising, or logfire.info("Webpage fetched") and the return
FetchFinish ==
    /\ \/ tpc = "f_check" /\ FetchCheck(primary_ret) # "fallback"
       \/ tpc = "f_return"
    /\ IF tpc = "f_check" /\ FetchCheck(primary_ret) = "TypeError"
       THEN /\ \E errok \in EmitOutcomes :
                 /\ FetchExcept("TypeError", errok)
                 /\ emit_fault' = (emit_fault \/ ~errok)
       ELSE \E ok \in EmitOutcomes :
              IF ok
              THEN /\ tpc' = "t_done"
                   /\ tresult' = Returned(FetchContent)
                   /\ UNCHANGED emit_fault
              ELSE /\ emit_fault' = TRUE
                   /\ \E errok \in EmitOutcomes : FetchExcept("emit", errok)
    /\ emitted' = (emitted \/ logfire_enabled)
    /\ UNCHANGED <<logfire_enabled, logfire_init, api_key, rvars, top, targ, tlimit, primary_called,
                   primary_net, primary_resp, primary_ret, fb_called, fb_args, fb_resp,
                   fb_ret, calls>>
    /\ UNCHANGED xvars

-----------------------------------------------------------------------------
(* Backend text and JSON                                                    *)
(* The text agent.run returns is a sequence of tokens: "{" and "}" are the  *)
(* brace characters, "prose" is a run of brace-free text that is no JSON,   *)
(* and a member token is a run of `"key": value` pairs of a JSON object     *)
(* (MemberDict gives the pairs).                                            *)

MaxTextLen == 4   \* longest backend text, in tokens

LB == "{"
RB == "}"
Prose == "prose"

\* JSON values: a string is a text (a token sequence), a list holds strings
JStr(s) == [t |-> "str", s |-> s, l |-> <<>>]
JList(l) == [t |-> "list", s |-> <<>>, l |-> l]
JNum == [t |-> "num", s |-> <<>>, l |-> <<>>]
JAbsent == [t |-> "absent", s |-> <<>>, l |-> <<>>]

Dict(q, s, k, src, ts) ==
    [query |-> q, summary |-> s, key_findings |-> k, sources |-> src, timestamp |-> ts]

EmptyDict == Dict(JAbsent, JAbsent, JAbsent, JAbsent, JAbsent)

Fields == {"query", "summary", "key_findings", "sources", "timestamp"}

\* the pairs each member token stands for
MemberDict(tok) ==
    CASE tok = "FULL" ->
           Dict(JStr(<<"qJ">>), JStr(<<"sJ">>), JList(<<"k1", "k2">>),
                JList(<<"src2", "src1">>), JAbsent)
      [] tok = "EMPTY_KF" ->
           Dict(JStr(<<"qJ">>), JStr(<<"sE">>), JList(<<>>), JList(<<"src1">>), JAbsent)
      [] tok = "NO_SOURCES" ->
           Dict(JStr(<<"qJ">>), JStr(<<"sJ">>), JList(<<"k1">>), JAbsent, JAbsent)
      [] tok = "BAD_TYPE" ->
           Dict(JStr(<<"qJ">>), JStr(<<"sJ">>), JNum, JList(<<"src1">>), JAbsent)
      [] tok = "WITH_TS" ->
           Dict(JStr(<<"qT">>), JStr(<<"sT">>), JList(<<"k2">>), JList(<<"src1">>),
                JStr(<<"tsJ">>))
      [] OTHER -> EmptyDict

MemberTokens == {"FULL", "EMPTY_KF", "NO_SOURCES", "BAD_TYPE", "WITH_TS"}
Tokens == {LB, RB, Prose} \cup MemberTokens
Texts == BSeq(Tokens, MaxTextLen)

\* positions of a token in a text
Positions(text, tok) == {i \in 1..Len(text) : text[i] = tok}

SetMin(S) == CHOOSE x \in S : \A y \in S : x <= y
SetMax(S) == CHOOSE x \in S : \A y \in S : x >= y

\* a non-greedy match: from the first "{" to the first "}" after it
JsonMatch_NonGreedy(text) ==
    LET lbs == Positions(text, LB)
        rbs == {j \in Positions(text, RB) : lbs # {} /\ j > SetMin(lbs)}
    IN IF lbs # {} /\ rbs # {}
       THEN SubSeq(text, SetMin(lbs), SetMin(rbs))
       ELSE <<>>

\* re.search(r'\{.*\}', response_text, re.DOTALL): the region from the first
\* "{" to the last "}", <<>> when there is no match
JsonMatch(text) ==
    LET lbs == Positions(text, LB)
        rbs == Positions(text, RB)
    IN IF lbs # {} /\ rbs # {} /\ SetMin(lbs) < SetMax(rbs)
       THEN SubSeq(text, SetMin(lbs), SetMax(rbs))
       ELSE <<>>

\* a later pair overrides an earlier pair of the same key
Override(d, e) == [f \in Fields |-> IF e[f].t # "absent" THEN e[f] ELSE d[f]]

RECURSIVE MergeMembers(_)
MergeMembers(toks) ==
    IF toks = <<>> THEN EmptyDict
    ELSE Override(MemberDict(Head(toks)), MergeMembers(Tail(toks)))

\* a decoder that accepts any region
JsonValid_Lenient(region) == TRUE

\* json.loads(region): the region is one object when everything between its
\* outer braces is member pairs
JsonValid(region) ==
    /\ Len(region) >= 2
    /\ \A i \in 2..(Len(region) - 1) : region[i] \in MemberTokens

JsonLoads(region) == MergeMembers(SubSeq(region, 2, Len(region) - 1))

-----------------------------------------------------------------------------
(* ResearchFindings *)

Findings(q, s, k, src, ts) ==
    [query |-> q, summary |-> s, key_findings |-> k, sources |-> src, timestamp |-> ts]

\* datetime.now().isoformat() of the default_factory
Now == <<"now">>

NoFindings == Findings(<<>>, <<>>, <<>>, <<>>, <<>>)

\* pydantic accepts the keyword arguments of ResearchFindings(**findings_dict)
Validates(d) ==
    /\ d.query.t = "str"
    /\ d.summary.t = "str"
    /\ d.key_findings.t = "list"
    /\ d.sources.t = "list"
    /\ d.timestamp.t \in {"str", "absent"}

\* the two list fields bound to each other's keyword
FindingsOfDict_ListsSwapped(d) ==
    Findings(d.query.s, d.summary.s, d.sources.l, d.key_findings.l,
             IF d.timestamp.t = "absent" THEN Now ELSE d.timestamp.s)

\* ResearchFindings(**findings_dict)
FindingsOfDict(d) ==
    Findings(d.query.s, d.summary.s, d.key_findings.l, d.sources.l,
             IF d.timestamp.t = "absent" THEN Now ELSE d.timestamp.s)

GenericFindings ==
    <<"Research completed using available tools",
      "Multiple sources were consulted",
      "Findings synthesized from web search and content analysis">>

\* the no-match branch building the narrower shape of the except branch
DegradedNoMatch_Narrow(text, q) ==
    Findings(<<q>>, text, SubSeq(GenericFindings, 1, 2), <<"Agent analysis">>, Now)

\* the `else:` branch: no match
DegradedNoMatch(text, q) ==
    Findings(<<q>>, text, GenericFindings,
             <<"Web search results", "Content analysis">>, Now)

\* the except branch building the three-entry shape of the else branch
DegradedOnFault_Wide(text, q) ==
    Findings(<<q>>, text, GenericFindings,
             <<"Web search results", "Content analysis">>, Now)

\* the `except (json.JSONDecodeError, Exception):` branch
DegradedOnFault(text, q) ==
    Findings(<<q>>, text, SubSeq(GenericFindings, 1, 2), <<"Agent analysis">>, Now)

\* "structured", "no_match" or "fault": the branch the inner try block takes
SynthBranch(text) ==
    LET region == JsonMatch(text)
    IN IF region = <<>> THEN "no_match"
       ELSE IF ~JsonValid(region) THEN "fault"
       ELSE IF ~Validates(JsonLoads(region)) THEN "fault"
       ELSE "structured"

\* the inner try block of research: response_text and query to findings
Synthesize(text, q) ==
    LET branch == SynthBranch(text)
    IN CASE branch = "structured" -> FindingsOfDict(JsonLoads(JsonMatch(text)))
         [] branch = "no_match" -> DegradedNoMatch(text, q)
         [] OTHER -> DegradedOnFault(text, q)

-----------------------------------------------------------------------------
(* ResearchAgent.research *)

ToolIdle ==
    /\ tpc' = "idle"
    /\ api_key' = NoClient
    /\ top' = "none"
    /\ targ' = ""
    /\ tlimit' = 1
    /\ primary_called' = FALSE
    /\ primary_net' = FALSE
    /\ primary_resp' = NoRequest
    /\ primary_ret' = PyNone
    /\ fb_called' = 0
    /\ fb_args' = <<>>
    /\ fb_resp' = NoRequest
    /\ calls' = <<>>
    /\ fb_ret' = PyNone
    /\ emit_fault' = FALSE
    /\ tresult' = NoResult

\* the except branch of the constructor leaving the flag as it was passed
EnabledAfterInit_KeepsFlag(enabled, ok) == enabled

\* self.logfire_enabled once the constructor is past its Logfire setup:
\* the argument, turned off by the except branch when the setup raised
EnabledAfterInit(enabled, ok) == enabled /\ ok

\* logfire.configure and logfire.info run only when enabled; they return or raise
InitOutcomes(enabled) == IF enabled THEN BOOLEAN ELSE {TRUE}

\* ResearchAgent(model_name, logfire_enabled)
Construct(enabled) ==
    /\ rpc = "new"
    /\ \E ok \in InitOutcomes(enabled) :
         /\ logfire_init' = (IF ~enabled THEN "off" ELSE IF ok THEN "ok" ELSE "failed")
         /\ logfire_enabled' = EnabledAfterInit(enabled, ok)
    /\ emitted' = FALSE
    /\ rpc' = "idle"
    /\ UNCHANGED <<tvars, rquery, rlimit, response_text, findings, rfault, r_emit_fault>>
    /\ UNCHANGED xvars

ResearchCall(q, max_results) ==
    /\ rpc \in {"idle", "r_done", "r_failed"}
    /\ rpc' = "r_start"
    /\ rquery' = q
    /\ rlimit' = max_results
    /\ response_text' = <<>>
    /\ findings' = NoFindings
    /\ rfault' = ""
    /\ r_emit_fault' = FALSE
    /\ UNCHANGED <<avars, tvars>>
    /\ UNCHANGED xvars

\* logfire.info("Starting research") and deps, before the try block
ResearchStart ==
    /\ rpc = "r_start"
    /\ \E ok \in EmitOutcomes :
         /\ r_emit_fault' = ~ok
         /\ IF ok
            THEN /\ rpc' = "r_running"
                 /\ UNCHANGED rfault
            ELSE /\ rpc' = "r_failed"
                 /\ rfault' = "emit"
    /\ emitted' = (emitted \/ logfire_enabled)
    /\ UNCHANGED <<logfire_enabled, logfire_init, tvars, rquery, rlimit, response_text,
                   findings>>
    /\ UNCHANGED xvars

\* a finished tool call hands its value to the backend; its frame is gone
ToolReturn ==
    /\ rpc = "r_running"
    /\ tpc = "t_done"
    /\ ToolIdle
    /\ UNCHANGED <<avars, rvars>>
    /\ UNCHANGED xvars

\* the outer `except Exception as e:` handler: emit, then re-raise e
ResearchExcept(e, errok) ==
    /\ rpc' = "r_failed"
    /\ rfault' = IF errok THEN e ELSE "emit"
    /\ r_emit_fault' = (r_emit_fault \/ e = "emit" \/ ~errok)

\* `await self.agent.run(prompt, deps=deps)` raises: the backend call faults,
\* or a tool call raised inside the run
AgentRunFaults ==
    /\ rpc = "r_running"
    /\ tpc \in {"idle", "t_raised"}
    /\ \E errok \in EmitOutcomes :
         ResearchExcept(IF tpc = "t_raised" THEN "tool" ELSE "backend", errok)
    /\ ToolIdle
    /\ emitted' = (emitted \/ logfire_enabled)
    /\ UNCHANGED <<logfire_enabled, logfire_init, rquery, rlimit, response_text, findings>>
    /\ UNCHANGED xvars

\* agent.run returns its text; synthesis, logfire.info("Research completed")
\* and the return follow without a suspension point
AgentRunReturns ==
    /\ rpc = "r_running"
    /\ tpc = "idle"
    /\ \E text \in Texts :
         /\ response_text' = text
         /\ findings' = Synthesize(text, rquery)
    /\ \E ok \in EmitOutcomes :
         IF ok
         THEN /\ rpc' = "r_done"
              /\ UNCHANGED <<rfault, r_emit_fault>>
         ELSE \E errok \in EmitOutcomes : ResearchExcept("emit", errok)
    /\ ToolIdle
    /\ emitted' = (emitted \/ logfire_enabled)
    /\ UNCHANGED <<logfire_enabled, logfire_init, rquery, rlimit>>
    /\ UNCHANGED xvars

-----------------------------------------------------------------------------

(* Concurrent calls on one agent *)

\* how many calls run concurrently on the agent
NCalls == 2
Calls == 1..NCalls

\* the inputs the concurrent calls draw from
ConcKeys == {"", "sk-live"}
ConcPrimarySearch ==
    {[kind |-> "results", items |-> <<>>], [kind |-> "results", items |-> <<ItemA>>]}
ConcSecondarySearch ==
    {[kind |-> "neterr", divs |-> <<>>], [kind |-> "html", divs |-> <<DivA, DivB>>]}
ConcPrimaryFetch ==
    {[kind |-> "status", content |-> PyNoneStr],
     [kind |-> "content", content |-> PyStr(0, <<>>)]}
ConcSecondaryFetch == {[kind |-> "neterr", len |-> 0], [kind |-> "html", len |-> 1]}
ConcBackend ==
    {[kind |-> "fault", text |-> <<>>], [kind |-> "text", text |-> <<Prose>>],
     [kind |-> "text", text |-> <<LB, "FULL", RB>>]}

NoInputs ==
    [op |-> "none", arg |-> "", limit |-> 1, key |-> NoClient,
     presp |-> NoRequest, sresp |-> NoRequest, back |-> NoRequest]

\* the parameters a call's frame holds across its suspension points
Frame(arg, lim) == [arg |-> arg, limit |-> lim]

NoConcurrentCalls ==
    /\ cpc = [c \in Calls |-> "new"]
    /\ cin = [c \in Calls |-> NoInputs]
    /\ locals = [c \in Calls |-> Frame("", 1)]
    /\ cres = [c \in Calls |-> NoResult]
    /\ overlapped = FALSE

\* one frame kept on the agent and used by every call
FrameOf_Shared(c) == 1

\* the frame of a call: query, limit, url are parameters of the coroutine,
\* one set for each invocation
FrameOf(c) == c

\* the step of call c runs while another call is suspended
Overlaps(c) == \E d \in Calls \ {c} : cpc[d] \notin {"new", "done"}

\* the conversion loop and the return of search_web, its logfire calls returning
SearchOutcome(v, q) ==
    IF ConvertFault(v) # "" THEN <<ErrorSentinel(ConvertFault(v))>>
    ELSE ReturnResults(ConvertResults(v), q)

\* what a step of a concurrent call leaves alone
ConcUnchanged ==
    UNCHANGED <<logfire_enabled, logfire_init, tvars, rvars, ivars>>

\* the call is entered and runs to its first await
ConcCall(c, op, arg, lim) ==
    /\ cpc[c] = "new"
    /\ cin' = [cin EXCEPT ![c] = [NoInputs EXCEPT !.op = op, !.arg = arg, !.limit = lim]]
    /\ locals' = [locals EXCEPT ![FrameOf(c)] = Frame(arg, lim)]
    /\ cpc' = [cpc EXCEPT ![c] = IF op = "research" THEN "agent" ELSE "primary"]
    /\ overlapped' = (overlapped \/ Overlaps(c))
    /\ emitted' = (emitted \/ logfire_enabled)
    /\ UNCHANGED cres
    /\ ConcUnchanged

ConcSearchCall(c, q, lim) == ConcCall(c, "search", q, lim)
ConcFetchCall(c, url) == ConcCall(c, "fetch", url, 1)
ConcResearchCall(c, q, lim) == ConcCall(c, "research", q, lim)

\* call c ends with the value v
ConcReturn(c, v) ==
    /\ cpc' = [cpc EXCEPT ![c] = "done"]
    /\ cres' = [cres EXCEPT ![c] = v]

\* call c suspends in its fallback_* await
ConcAwaitSecondary(c) ==
    /\ cpc' = [cpc EXCEPT ![c] = "secondary"]
    /\ UNCHANGED cres

\* search_web resumes from `await context7.search(...)`
ConcSearchPrimary(c) ==
    /\ cpc[c] = "primary"
    /\ cin[c].op = "search"
    /\ \E key \in ConcKeys, resp \in ConcPrimarySearch :
         LET ret == Context7Search_search(key, resp)
         IN /\ cin' = [cin EXCEPT ![c].key = key, ![c].presp = resp]
            /\ IF NeedsFallback(ret) THEN ConcAwaitSecondary(c)
               ELSE ConcReturn(c, Returned(SearchOutcome(ret, locals[FrameOf(c)].arg)))
    /\ overlapped' = (overlapped \/ Overlaps(c))
    /\ emitted' = (emitted \/ logfire_enabled)
    /\ UNCHANGED locals
    /\ ConcUnchanged

\* search_web resumes from `await fallback_search(...)`
ConcSearchSecondary(c) ==
    /\ cpc[c] = "secondary"
    /\ cin[c].op = "search"
    /\ \E page \in ConcSecondarySearch :
         LET f == locals[FrameOf(c)]
         IN /\ cin' = [cin EXCEPT ![c].sresp = page]
            /\ ConcReturn(c, Returned(SearchOutcome(fallback_search(page, f.limit), f.arg)))
    /\ overlapped' = (overlapped \/ Overlaps(c))
    /\ emitted' = (emitted \/ logfire_enabled)
    /\ UNCHANGED locals
    /\ ConcUnchanged

\* fetch_webpage_content resumes from `await context7.fetch_content(url)`
ConcFetchPrimary(c) ==
    /\ cpc[c] = "primary"
    /\ cin[c].op = "fetch"
    /\ \E key \in ConcKeys, resp \in ConcPrimaryFetch :
         LET url == locals[FrameOf(c)].arg
             ret == Context7Search_fetch_content(key, url, resp)
         IN /\ cin' = [cin EXCEPT ![c].key = key, ![c].presp = resp]
            /\ CASE FetchCheck(ret) = "fallback" -> ConcAwaitSecondary(c)
                 [] FetchCheck(ret) = "TypeError" ->
                      ConcReturn(c, Returned(ErrorFetching(url, "TypeError")))
                 [] OTHER -> ConcReturn(c, Returned(ret))
    /\ overlapped' = (overlapped \/ Overlaps(c))
    /\ emitted' = (emitted \/ logfire_enabled)
    /\ UNCHANGED locals
    /\ ConcUnchanged

\* fetch_webpage_content resumes from `await fallback_fetch(url)`
ConcFetchSecondary(c) ==
    /\ cpc[c] = "secondary"
    /\ cin[c].op = "fetch"
    /\ \E page \in ConcSecondaryFetch :
         /\ cin' = [cin EXCEPT ![c].sresp = page]
         /\ ConcReturn(c, Returned(fallback_fetch(locals[FrameOf(c)].arg, page)))
    /\ overlapped' = (overlapped \/ Overlaps(c))
    /\ emitted' = (emitted \/ logfire_enabled)
    /\ UNCHANGED locals
    /\ ConcUnchanged

\* research resumes from `await self.agent.run(prompt, deps=deps)`
ConcAgentRun(c) ==
    /\ cpc[c] = "agent"
    /\ \E back \in ConcBackend :
         /\ cin' = [cin EXCEPT ![c].back = back]
         /\ IF back.kind = "fault" THEN ConcReturn(c, Raised("backend"))
            ELSE ConcReturn(c, Returned(Synthesize(back.text, locals[FrameOf(c)].arg)))
    /\ overlapped' = (overlapped \/ Overlaps(c))
    /\ emitted' = (emitted \/ logfire_enabled)
    /\ UNCHANGED locals
    /\ ConcUnchanged

\* no tool call is running
NoToolCall ==
    /\ api_key = NoClient
    /\ tpc = "idle"
    /\ top = "none"
    /\ targ = ""
    /\ tlimit = 1
    /\ primary_called = FALSE
    /\ primary_net = FALSE
    /\ primary_resp = NoRequest
    /\ primary_ret = PyNone
    /\ fb_called = 0
    /\ fb_args = <<>>
    /\ fb_resp = NoRequest
    /\ calls = <<>>
    /\ fb_ret = PyNone
    /\ emit_fault = FALSE
    /\ tresult = NoResult

\* no research call has been made
NoResearchCall ==
    /\ rquery = ""
    /\ rlimit = 1
    /\ response_text = <<>>
    /\ findings = NoFindings
    /\ rfault = ""
    /\ r_emit_fault = FALSE

\* the interactive loop is not running
NoSession ==
    /\ ipc = "off"
    /\ iline = <<>>
    /\ iasked = "none"
    /\ research_calls = 0
    /\ ioutcome = "none"

Init ==
    /\ logfire_enabled = FALSE
    /\ logfire_init = "none"
    /\ emitted = FALSE
    /\ NoToolCall
    /\ rpc = "new"
    /\ NoResearchCall
    /\ NoConcurrentCalls
    /\ NoSession

Next ==
    \/ \E enabled \in BOOLEAN : Construct(enabled)
    \/ \E q \in Queries, lim \in Limits : SearchCall(q, lim)
    \/ SearchEnter
    \/ SearchPrimary
    \/ SearchFallback
    \/ SearchFinish
    \/ \E url \in Urls : FetchCall(url)
    \/ FetchEnter
    \/ FetchPrimary
    \/ FetchFallback
    \/ FetchFinish
    \/ \E q \in Queries, lim \in Limits : ResearchCall(q, lim)
    \/ ResearchStart
    \/ ToolReturn
    \/ AgentRunFaults
    \/ AgentRunReturns

Spec == Init /\ [][Next]_vars

\* the agent as its constructor left it, no call made yet
ConcInit ==
    /\ logfire_init \in {"off", "ok"}
    /\ logfire_enabled = (logfire_init = "ok")
    /\ emitted = FALSE
    /\ NoToolCall
    /\ rpc = "idle"
    /\ NoResearchCall
    /\ NoConcurrentCalls
    /\ NoSession

ConcNext ==
    \E c \in Calls :
        \/ \E q \in Queries, lim \in {1, 2} : ConcSearchCall(c, q, lim)
        \/ \E url \in Urls : ConcFetchCall(c, url)
        \/ \E q \in Queries : ConcResearchCall(c, q, 2)
        \/ ConcSearchPrimary(c)
        \/ ConcSearchSecondary(c)
        \/ ConcFetchPrimary(c)
        \/ ConcFetchSecondary(c)
        \/ ConcAgentRun(c)

SpecConc == ConcInit /\ [][ConcNext]_vars

-----------------------------------------------------------------------------
(* interactive_research: the loop of main.py *)

\* how many research calls one session makes at most
MaxRounds == 3

UpperCase == <<"A", "B", "C", "D", "E", "F", "G", "H", "I", "J", "K", "L", "M",
               "N", "O", "P", "Q", "R", "S", "T", "U", "V", "W", "X", "Y", "Z">>
LowerCase == <<"a", "b", "c", "d", "e", "f", "g", "h", "i", "j", "k", "l", "m",
               "n", "o", "p", "q", "r", "s", "t", "u", "v", "w", "x", "y", "z">>
Whitespace == {" ", "\t"}

\* str.lower() on a line of characters
LowerChar(ch) ==
    IF \E k \in 1..26 : UpperCase[k] = ch
    THEN LowerCase[CHOOSE k \in 1..26 : UpperCase[k] = ch]
    ELSE ch
Lower(line) == [k \in 1..Len(line) |-> LowerChar(line[k])]

\* str.strip()
RECURSIVE StripLeft(_)
StripLeft(line) ==
    IF line # <<>> /\ Head(line) \in Whitespace THEN StripLeft(Tail(line)) ELSE line
RECURSIVE StripRight(_)
StripRight(line) ==
    IF line # <<>> /\ line[Len(line)] \in Whitespace
    THEN StripRight(SubSeq(line, 1, Len(line) - 1))
    ELSE line
Strip(line) == StripRight(StripLeft(line))

\* the lines the user types
Lines ==
    {<<>>, <<" ">>, <<"q">>, <<"Q", "u", "i", "t">>, <<"e", "x", "i", "t", " ">>,
     <<"h", "e", "l", "p">>, <<"r", "u", "s", "t">>, <<" ", "g", "o">>,
     <<"y">>, <<"Y", "e", "s">>, <<" ", "y", "e", "s">>, <<"\t">>,
     <<"n">>, <<"N", "o">>, <<"y", "e", "s", "!">>}

\* `query.lower() in ['quit', 'exit', 'q']`
IsQuitCommand(query) ==
    Lower(query) \in {<<"q", "u", "i", "t">>, <<"e", "x", "i", "t">>, <<"q">>}

\* `input(...).strip().lower() not in ['y', 'yes', '']` is false
Continues(line) ==
    Lower(Strip(line)) \in {<<"y">>, <<"y", "e", "s">>, <<>>}

\* a handler that lets the fault end the session
AfterResearchFault_Exits == "exited"

\* where the `except Exception as e:` handler of the loop goes: it prints the
\* fault and asks whether to try again
AfterResearchFault == "retry_prompt"

LoopUnchanged == UNCHANGED <<avars, tvars, rvars, cvars>>

\* `query = input("\nEnter your research topic: ").strip()` and the two tests
\* that follow it
ReadQuery(line) ==
    /\ ipc = "query_prompt"
    /\ iline' = line
    /\ iasked' = "query"
    /\ LET query == Strip(line)
       IN IF query = <<>>
          THEN /\ ipc' = "query_prompt"
               /\ UNCHANGED <<research_calls, ioutcome>>
          ELSE IF IsQuitCommand(query)
          THEN /\ ipc' = "exited"
               /\ UNCHANGED <<research_calls, ioutcome>>
          ELSE /\ research_calls < MaxRounds
               /\ ipc' = "researching"
               /\ research_calls' = research_calls + 1
               /\ ioutcome' = "pending"
    /\ LoopUnchanged

\* agent.research returns; the results are printed and the user is asked
\* whether to go on
ResearchReturns ==
    /\ ipc = "researching"
    /\ ipc' = "continue_prompt"
    /\ ioutcome' = "returned"
    /\ UNCHANGED <<iline, iasked, research_calls>>
    /\ LoopUnchanged

\* agent.research raises; the handler prints the fault and asks
ResearchRaises ==
    /\ ipc = "researching"
    /\ ipc' = AfterResearchFault
    /\ ioutcome' = "raised"
    /\ UNCHANGED <<iline, iasked, research_calls>>
    /\ LoopUnchanged

\* the answer to "Would you like to research another topic? (y/n): "
AnswerContinue(line) ==
    /\ ipc = "continue_prompt"
    /\ iline' = line
    /\ iasked' = "continue"
    /\ ipc' = (IF Continues(line) THEN "query_prompt" ELSE "exited")
    /\ UNCHANGED <<research_calls, ioutcome>>
    /\ LoopUnchanged

\* the answer to "Would you like to try again? (y/n): "
AnswerRetry(line) ==
    /\ ipc = "retry_prompt"
    /\ iline' = line
    /\ iasked' = "retry"
    /\ ipc' = (IF Continues(line) THEN "query_prompt" ELSE "exited")
    /\ UNCHANGED <<research_calls, ioutcome>>
    /\ LoopUnchanged

\* `agent = ResearchAgent()` is done and the loop is at its first prompt
LoopInit ==
    /\ logfire_init \in {"ok", "failed"}
    /\ logfire_enabled = (logfire_init = "ok")
    /\ emitted = FALSE
    /\ NoToolCall
    /\ rpc = "idle"
    /\ NoResearchCall
    /\ NoConcurrentCalls
    /\ ipc = "query_prompt"
    /\ iline = <<>>
    /\ iasked = "none"
    /\ research_calls = 0
    /\ ioutcome = "none"

LoopNext ==
    \/ \E line \in Lines : ReadQuery(line)
    \/ ResearchReturns
    \/ ResearchRaises
    \/ \E line \in Lines : AnswerContinue(line)
    \/ \E line \in Lines : AnswerRetry(line)

SpecLoop == LoopInit /\ [][LoopNext]_vars

-----------------------------------------------------------------------------
(* Properties *)

SearchOver == top = "search" /\ tpc \in {"t_done", "t_raised"}
FetchOver == top = "fetch" /\ tpc \in {"t_done", "t_raised"}

IsSearchResult(r) == DOMAIN r = {"title", "url", "snippet", "relevance_score"}

\* C1: for every query and every outcome of the two providers, a search_web
\* call that is over has returned a sequence of at least one SearchResult and
\* has not raised to its caller.
C1_SearchReturnsNonEmpty ==
    SearchOver =>
        /\ tresult.kind = "returned"
        /\ Len(tresult.value) >= 1
        /\ \A i \in 1..Len(tresult.value) : IsSearchResult(tresult.value[i])

PrimarySearchFaulted ==
    \/ primary_resp.kind \in PrimaryFaultKinds
    \/ primary_resp.kind = "scalar"
    \/ /\ primary_resp.kind = "results"
       /\ \E i \in 1..Len(primary_resp.items) : ~ItemConverts(primary_resp.items[i])

\* C3 (stated for the calls in which every logfire call succeeded): after
\* any fault of the primary during search (network error, timeout,
\* non-2xx status, malformed payload, a results list with entries that are no
\* result objects) fallback_search was invoked with the same query and limit,
\* and its results are what search_web returned when it had any.
C3_PrimaryFaultFallsThrough ==
    (top = "search" /\ tpc = "t_done" /\ ~emit_fault /\ PrimarySearchFaulted) =>
        /\ fb_called = 1
        /\ fb_args = <<targ, tlimit>>
        /\ Len(fb_ret.items) > 0 => tresult = Returned(ConvertResults(fb_ret))

\* C4 (stated for the calls in which every logfire call succeeded): after
\* a fault of the primary's fetch (network error, timeout, non-2xx
\* status, malformed payload) fallback_fetch was invoked and the fetch
\* returned the secondary's output, not the primary's error text.
C4_PrimaryFetchFaultFallsBack ==
    (top = "fetch" /\ tpc = "t_done" /\ ~emit_fault
        /\ primary_resp.kind \in PrimaryFaultKinds) =>
        /\ fb_called = 1
        /\ fb_args = <<targ>>
        /\ tresult = Returned(fb_ret)

\* C5: for every URL and every outcome of the two providers (an empty
\* secondary page among them), a fetch_webpage_content call that is over has
\* returned a non-empty string and has not raised.  Stated for the calls in
\* which every logfire call succeeded.
C5_FetchReturnsNonEmptyString ==
    (FetchOver /\ ~emit_fault) =>
        /\ tresult.kind = "returned"
        /\ tresult.value.kind = "str"
        /\ StrLen(tresult.value) > 0

\* C6: every ResearchFindings that research returns has a non-empty
\* key_findings and a non-empty sources, whatever the backend text was.
C6_FindingsListsNonEmpty ==
    rpc = "r_done" =>
        /\ Len(findings.key_findings) > 0
        /\ Len(findings.sources) > 0

\* C7: a research call that is over has returned its ResearchFindings or has
\* raised the fault of the backend call agent.run; it fails for no other fault.
C7_FailsOnlyOnBackendFault ==
    /\ rpc = "r_failed" => rfault = "backend"
    /\ rpc = "r_done" => rfault = "" /\ findings # NoFindings

\* C8: a logfire call that raises never reaches the caller of search, fetch
\* or research and never changes what the operation returns.
C8_EmitFaultsAbsorbed ==
    /\ tresult.kind # "raised"
    /\ rfault \notin {"emit", "tool"}
    /\ (top = "search" /\ tpc = "t_done") => tresult.value # <<ErrorSentinel("emit")>>
    /\ (top = "fetch" /\ tpc = "t_done") => tresult.value # ErrorFetching(targ, "emit")

\* the text is one JSON object and nothing else
IsOneObject(text) ==
    /\ Len(text) >= 2
    /\ text[1] = LB
    /\ text[Len(text)] = RB
    /\ \A i \in 2..(Len(text) - 1) : text[i] \in MemberTokens

\* the value the object gives a key: that of its last pair with the key
ValueOf(text, f) ==
    LET has == {i \in 2..(Len(text) - 1) : MemberDict(text[i])[f].t # "absent"}
    IN IF has = {} THEN JAbsent
       ELSE MemberDict(text[CHOOSE i \in has : \A j \in has : j <= i])[f]

\* the object has the four required fields, each of its type
HasSchema(text) ==
    /\ ValueOf(text, "query").t = "str"
    /\ ValueOf(text, "summary").t = "str"
    /\ ValueOf(text, "key_findings").t = "list"
    /\ ValueOf(text, "sources").t = "list"
    /\ ValueOf(text, "timestamp").t \in {"absent", "str"}

\* C9: when the backend text is exactly one JSON object with the fields
\* query, summary, key_findings and sources, the ResearchFindings research
\* returns has those four values, the two lists in the object's order, and
\* none of the generic entries of the degraded shapes.
C9_RoundTrip ==
    (rpc = "r_done" /\ IsOneObject(response_text) /\ HasSchema(response_text)) =>
        /\ findings.query = ValueOf(response_text, "query").s
        /\ findings.summary = ValueOf(response_text, "summary").s
        /\ findings.key_findings = ValueOf(response_text, "key_findings").l
        /\ findings.sources = ValueOf(response_text, "sources").l
        /\ \A i \in 1..Len(findings.key_findings) :
              findings.key_findings[i] \notin
                 {"Research completed using available tools",
                  "Multiple sources were consulted",
                  "Findings synthesized from web search and content analysis"}
        /\ \A i \in 1..Len(findings.sources) :
              findings.sources[i] \notin
                 {"Web search results", "Content analysis", "Agent analysis"}

\* research returned the fields of the object {FULL}, whose query is not the
\* caller's
C9_Witness ==
    /\ rpc = "r_done"
    /\ response_text = <<LB, "FULL", RB>>
    /\ findings.query = <<"qJ">>
    /\ findings.key_findings = <<"k1", "k2">>
    /\ findings.sources = <<"src2", "src1">>

\* no "{" of the text is followed later by a "}"
NoBraceRegion(text) ==
    ~\E i, j \in 1..Len(text) : i < j /\ text[i] = LB /\ text[j] = RB

\* C10: when the backend text has no "{" followed later by a "}", research
\* returns the first degraded shape: the text as summary, the caller's query,
\* the three generic key findings in order and the two generic sources.
C10_NoRegionGivesFirstDegradedShape ==
    (rpc = "r_done" /\ NoBraceRegion(response_text)) =>
        /\ findings.summary = response_text
        /\ findings.query = <<rquery>>
        /\ findings.key_findings =
              <<"Research completed using available tools",
                "Multiple sources were consulted",
                "Findings synthesized from web search and content analysis">>
        /\ findings.sources = <<"Web search results", "Content analysis">>

\* research returned for a text whose braces are in the wrong order
C10_Witness ==
    /\ rpc = "r_done"
    /\ response_text = <<RB, Prose, LB>>
    /\ Len(findings.key_findings) = 3
    /\ findings.summary = <<RB, Prose, LB>>

\* the region from the first "{" to the last "}" of a text that has one
BraceRegion(text) ==
    LET i == CHOOSE i \in 1..Len(text) :
                 text[i] = LB /\ \A k \in 1..(i - 1) : text[k] # LB
        j == CHOOSE j \in 1..Len(text) :
                 text[j] = RB /\ \A k \in (j + 1)..Len(text) : text[k] # RB
    IN SubSeq(text, i, j)

\* the text has a brace region that is a JSON object, and the object lacks a
\* required field or has one of the wrong type
FieldConstructionFails(text) ==
    /\ ~NoBraceRegion(text)
    /\ IsOneObject(BraceRegion(text))
    /\ ~HasSchema(BraceRegion(text))

\* C11 as stated: when the brace region parses as JSON but the construction
\* of ResearchFindings from it fails, research returns the first degraded
\* shape: three generic key findings and the two generic sources.
C11_ConstructionFailureGivesFirstShape ==
    (rpc = "r_done" /\ FieldConstructionFails(response_text)) =>
        /\ findings.summary = response_text
        /\ findings.query = <<rquery>>
        /\ findings.key_findings =
              <<"Research completed using available tools",
                "Multiple sources were consulted",
                "Findings synthesized from web search and content analysis">>
        /\ findings.sources = <<"Web search results", "Content analysis">>

\* C11 as amended: when the brace region parses as JSON but the construction
\* of ResearchFindings from it fails, research returns the second, narrower
\* degraded shape: the first two generic key findings and the single source
\* 'Agent analysis', with the backend text as summary and the caller's query.
C11_ConstructionFailureGivesSecondShape ==
    (rpc = "r_done" /\ FieldConstructionFails(response_text)) =>
        /\ findings.summary = response_text
        /\ findings.query = <<rquery>>
        /\ findings.key_findings =
              <<"Research completed using available tools",
                "Multiple sources were consulted">>
        /\ findings.sources = <<"Agent analysis">>

\* research returned for an object that has no sources field, after prose
C11_Witness ==
    /\ rpc = "r_done"
    /\ response_text = <<Prose, LB, "NO_SOURCES", RB>>
    /\ Len(findings.key_findings) = 2
    /\ findings.summary = <<Prose, LB, "NO_SOURCES", RB>>

\* C12: when a brace region is found and decoding it faults (it is no valid
\* JSON), research returns the second degraded shape: the backend text as
\* summary, the caller's query, exactly the first two generic key findings
\* and the single source 'Agent analysis'; research does not raise.
C12_DecodeFaultGivesSecondShape ==
    (rpc \in {"r_done", "r_failed"} /\ response_text # <<>>
        /\ ~NoBraceRegion(response_text)
        /\ ~IsOneObject(BraceRegion(response_text))) =>
        /\ rfault \in {"", "emit"}
        /\ findings.summary = response_text
        /\ findings.query = <<rquery>>
        /\ findings.key_findings =
              <<"Research completed using available tools",
                "Multiple sources were consulted">>
        /\ findings.sources = <<"Agent analysis">>
        /\ findings.timestamp = <<"now">>

\* research returned for a region that holds prose between its braces
C12_Witness ==
    /\ rpc = "r_done"
    /\ response_text = <<LB, Prose, RB>>
    /\ findings.sources = <<"Agent analysis">>

\* the credential is absent or a placeholder that begins with 'dummy'
KeyAbsentOrDummy == api_key \in {"", "dummy-key"}

\* the results the secondary returned, as SearchResult values in its order
SecondaryAsResults ==
    [i \in 1..Len(fb_ret.items) |->
        [title |-> fb_ret.items[i].title, url |-> fb_ret.items[i].url,
         snippet |-> fb_ret.items[i].snippet, relevance_score |-> "None"]]

\* C13: when the primary is unconfigured and the secondary returns n results
\* with 1 <= n <= limit, a search_web call that is over has returned exactly
\* those n results in the secondary's order, none dropped and no sentinel
\* added.
C13_SecondaryResultsReturnedAsIs ==
    (SearchOver /\ KeyAbsentOrDummy /\ fb_called = 1
        /\ Len(fb_ret.items) >= 1 /\ Len(fb_ret.items) <= tlimit) =>
        /\ tresult.kind = "returned"
        /\ tresult.value = SecondaryAsResults

\* neither provider gave a result: the primary faulted or returned nothing,
\* and the secondary, where it was asked, faulted or returned nothing
BothFailedOrEmpty ==
    /\ primary_called
    /\ PrimarySearchFaulted \/ Len(primary_ret.items) = 0
    /\ fb_called = 0 \/ Len(fb_ret.items) = 0

\* C14 (stated for the calls in which every logfire call succeeded): when
\* both providers fail or return empty, search_web returns exactly one
\* element, the sentinel whose snippet says that no results were available
\* and whose relevance_score is 0.0.
C14_BothFailGivesNoResultsSentinel ==
    (top = "search" /\ tpc = "t_done" /\ ~emit_fault /\ BothFailedOrEmpty) =>
        /\ Len(tresult.value) = 1
        /\ tresult.value[1].snippet = "No search results available at this time"
        /\ tresult.value[1].relevance_score = "0.0"

\* C15: when the credential is absent or begins with 'dummy', the primary
\* step of search and of fetch returns without a network request, the only
\* provider that can make one in the call is the secondary, and the secondary
\* is what the call goes on to once its fallback branch is past its emit.
C15_UnconfiguredPrimaryMakesNoRequest ==
    (top \in {"search", "fetch"} /\ primary_called /\ KeyAbsentOrDummy) =>
        /\ ~primary_net
        /\ primary_resp = [kind |-> "norequest"]
        /\ top = "search" => primary_ret = [kind |-> "list", items |-> <<>>]
        /\ top = "fetch" => primary_ret.parts[1] = "Content from "
        /\ fb_called <= 1
        /\ (tpc = "t_done" /\ ~emit_fault) =>
              (fb_called = 1 /\ calls = <<"primary", "secondary">>)

\* a fetch with a placeholder credential ended on the secondary's page
C15_Witness ==
    /\ top = "fetch"
    /\ tpc = "t_done"
    /\ api_key = "dummy-key"
    /\ fb_called = 1
    /\ fb_resp.kind = "html"
    /\ tresult = Returned(fb_ret)

\* a tier of the fetch faulted
FetchTierFaulted ==
    \/ primary_resp.kind \in PrimaryFaultKinds
    \/ fb_called = 1 /\ fb_resp.kind \in {"neterr", "timeout"}

\* the text holds the piece
Names(s, piece) == \E i \in 1..Len(s.parts) : s.parts[i] = piece

\* C16 (stated for the calls in which every logfire call succeeded): every
\* fault of either tier during fetch becomes a returned text that names the
\* URL and the underlying fault, a non-2xx status of the primary included.
C16_FetchFaultTextNamesUrlAndFault ==
    (top = "fetch" /\ tpc = "t_done" /\ ~emit_fault /\ FetchTierFaulted) =>
        /\ tresult.value.kind = "str"
        /\ Names(tresult.value, targ)
        /\ \E e \in {"ConnectError", "ReadTimeout", "JSONDecodeError",
                     "AttributeError", "TypeError", "HTTPStatusError"} :
              Names(tresult.value, e)

\* C17: in fallback_fetch, an extracted text longer than 5000 characters
\* comes back as its first 5000 characters followed by '...' (5003 in all),
\* and a text of at most 5000 characters comes back unchanged.
C17_FallbackFetchTruncatesAt5000 ==
    (top = "fetch" /\ fb_called = 1 /\ fb_resp.kind = "html") =>
        IF fb_resp.len > 5000
        THEN /\ fb_ret = [kind |-> "str", n |-> 5000, parts |-> <<"...">>]
             /\ StrLen(fb_ret) = 5003
        ELSE /\ fb_ret = [kind |-> "str", n |-> fb_resp.len, parts |-> <<>>]
             /\ StrLen(fb_ret) = fb_resp.len

\* a page of 6000 characters was fetched by the secondary and returned cut
C17_Witness ==
    /\ top = "fetch"
    /\ tpc = "t_done"
    /\ fb_resp = [kind |-> "html", len |-> 6000]
    /\ tresult = Returned(fb_ret)
    /\ StrLen(tresult.value) = 5003

\* C18: the timestamp of a ResearchFindings built from a structured backend
\* object is the time of synthesis, also when the object has a timestamp
\* field of its own.
C18_TimestampIsSynthesisTime ==
    (rpc = "r_done" /\ ~NoBraceRegion(response_text)
        /\ IsOneObject(BraceRegion(response_text))
        /\ HasSchema(BraceRegion(response_text))) =>
        findings.timestamp = <<"now">>

\* C19: within one search call and one fetch call each provider is invoked
\* at most once and the primary before the secondary: no tier is retried.
C19_EachTierAtMostOnceInOrder ==
    top \in {"search", "fetch"} =>
        /\ calls \in {<<>>, <<"primary">>, <<"primary", "secondary">>}
        /\ fb_called = (IF Len(calls) = 2 THEN 1 ELSE 0)
        /\ primary_called = (Len(calls) >= 1)

\* both tiers came back empty and the search ended without another attempt
C19_Witness ==
    /\ top = "search"
    /\ tpc = "t_done"
    /\ calls = <<"primary", "secondary">>
    /\ primary_net
    /\ Len(fb_ret.items) = 0
    /\ tresult.value[1].snippet = "No search results available at this time"

\* C20: when the Logfire setup fails in the constructor, construction still
\* completes, logfire_enabled is false from then on, and no search, fetch or
\* research call makes a logfire call.
C20_FailedInitDisablesLogging ==
    logfire_init = "failed" =>
        /\ rpc # "new"
        /\ ~logfire_enabled
        /\ ~emitted
        /\ ~emit_fault
        /\ ~r_emit_fault

\* after a failed setup a research call ran a search and returned
C20_Witness ==
    /\ logfire_init = "failed"
    /\ rpc = "r_done"
    /\ response_text = <<LB, "FULL", RB>>

\* the tokens i..j of the text are one JSON object with the schema's fields
SchemaObjectAt(text, i, j) ==
    /\ i < j
    /\ IsOneObject(SubSeq(text, i, j))
    /\ HasSchema(SubSeq(text, i, j))

\* a brace among the tokens lo..hi of the text
HasBrace(text, lo, hi) == \E k \in lo..hi : text[k] \in {"{", "}"}

\* the findings have the fields of the object
StructuredFrom(obj) ==
    /\ findings.query = ValueOf(obj, "query").s
    /\ findings.summary = ValueOf(obj, "summary").s
    /\ findings.key_findings = ValueOf(obj, "key_findings").l
    /\ findings.sources = ValueOf(obj, "sources").l

\* the findings are one of the two degraded shapes
DegradedShape ==
    /\ findings.summary = response_text
    /\ findings.query = <<rquery>>
    /\ \/ /\ findings.key_findings =
               <<"Research completed using available tools",
                 "Multiple sources were consulted",
                 "Findings synthesized from web search and content analysis">>
          /\ findings.sources = <<"Web search results", "Content analysis">>
       \/ /\ findings.key_findings =
               <<"Research completed using available tools",
                 "Multiple sources were consulted">>
          /\ findings.sources = <<"Agent analysis">>

\* research went through the synthesis of a backend text
Synthesized == rpc \in {"r_done", "r_failed"} /\ response_text # <<>>

C23_AtMostLimitResults ==
    (top = "search" /\ tpc = "t_done" /\ tlimit >= 1 /\ tresult.kind = "returned") =>
        Len(tresult.value) <= tlimit

\* what a call returns when it runs alone on the agent with the inputs i
RunAlone(i) ==
    CASE i.op = "search" ->
           LET p == Context7Search_search(i.key, i.presp)
           IN IF NeedsFallback(p)
              THEN Returned(SearchOutcome(fallback_search(i.sresp, i.limit), i.arg))
              ELSE Returned(SearchOutcome(p, i.arg))
      [] i.op = "fetch" ->
           LET p == Context7Search_fetch_content(i.key, i.arg, i.presp)
           IN CASE FetchCheck(p) = "fallback" -> Returned(fallback_fetch(i.arg, i.sresp))
                [] FetchCheck(p) = "TypeError" -> Returned(ErrorFetching(i.arg, "TypeError"))
                [] OTHER -> Returned(p)
      [] i.op = "research" ->
           IF i.back.kind = "fault" THEN Raised("backend")
           ELSE Returned(Synthesize(i.back.text, i.arg))
      [] OTHER -> NoResult

\* C21: search, fetch and research calls on one agent share no mutable
\* state: however the calls interleave at their awaits, a call that is over
\* has returned what it returns when run alone with the same provider and
\* backend responses, and the agent's logfire_enabled is as the constructor
\* left it.
C21_ConcurrentCallsDoNotInterfere ==
    /\ \A c \in Calls : cpc[c] = "done" => cres[c] = RunAlone(cin[c])
    /\ logfire_enabled = (logfire_init = "ok")

\* a search and a fetch overlapped, each suspended in its fallback while the
\* other ran, and each returned what its own inputs give
C21_Witness ==
    /\ overlapped
    /\ cpc[1] = "done"
    /\ cpc[2] = "done"
    /\ cin[1].op = "search"
    /\ cin[1].arg = "q1"
    /\ cin[1].sresp.kind = "neterr"
    /\ cin[2].op = "fetch"
    /\ cin[2].arg = "u2"
    /\ cin[2].sresp.kind = "neterr"
    /\ cres[1].value[1].title = "Search for: q1"
    /\ cres[2].value.parts[2] = "u2"

\* the typed lines that are a quit command once trimmed and case-folded
QuitLines == {<<"q">>, <<"Q", "u", "i", "t">>, <<"e", "x", "i", "t", " ">>}

\* the typed lines that are 'y', 'yes' or nothing once trimmed and case-folded
YesLines == {<<>>, <<" ">>, <<"\t">>, <<"y">>, <<"Y", "e", "s">>, <<" ", "y", "e", "s">>}

\* the typed lines that hold nothing but whitespace
BlankLines == {<<>>, <<" ">>, <<"\t">>}

\* C24: in the interactive loop a fault raised by research does not end the
\* session: it leads to the retry prompt, an answer of 'y', 'yes' or nothing
\* to either prompt leads to the next query prompt, the session ends only on
\* a declining answer or on a quit command, and an empty query starts no
\* research call.
C24_FaultNeverEndsSession ==
    /\ (ioutcome = "raised" /\ iasked = "query" /\ iline \notin BlankLines \cup QuitLines)
          => ipc = "retry_prompt"
    /\ ipc = "retry_prompt" => ioutcome = "raised"
    /\ (iasked \in {"continue", "retry"} /\ iline \in YesLines) => ipc = "query_prompt"
    /\ ipc = "exited" =>
          \/ iasked = "query" /\ iline \in QuitLines
          \/ iasked \in {"continue", "retry"} /\ iline \notin YesLines
    /\ (iasked = "query" /\ iline \in BlankLines) => ipc = "query_prompt"
    /\ ipc = "researching" => iline \notin BlankLines \cup QuitLines
    /\ (iasked = "none") => research_calls = 0

\* after two faults, each answered with a form of yes, the loop is back at
\* the query prompt
C24_Witness ==
    /\ ipc = "query_prompt"
    /\ ioutcome = "raised"
    /\ iasked = "retry"
    /\ iline = <<"Y", "e", "s">>
    /\ research_calls = 2

====
